---- MODULE Spec2Model ----
(***************************************************************************)
(* Model of movies/omdb_integration.py: fill_movie_details and             *)
(* search_and_save over the Movie, Genre and SearchTerm tables, with the   *)
(* OMDb client as a nondeterministic collaborator (a response or a         *)
(* ClientError) and the clock as a variable.  Time is counted in hours.    *)
(* Each call is one step: the calls are synchronous and, within one call,  *)
(* both clock reads (the recency check and the auto-now of the save) see   *)
(* the same hour.  Two history variables serve the properties: last        *)
(* records the latest call (its argument, the hour it was made at, the     *)
(* catalog calls it issued, what the catalog answered, how it ended), and  *)
(* searchedAs[term] is the raw string of the latest search for term that   *)
(* reached the catalog and returned normally.  For the invocations that    *)
(* run concurrently (SpecConcurrent), inflight[p] is the call that worker  *)
(* p is in: where it stands and its local variables.                       *)
(***************************************************************************)
EXTENDS Integers, Sequences, FiniteSets

VARIABLES now, movies, genres, searchTerms, last, searchedAs, inflight

vars == <<now, movies, genres, searchTerms, last, searchedAs, inflight>>

-----------------------------------------------------------------------------
(* Bounds and input domains *)

MaxTime == 49
MaxResults == 2
MaxGenreNames == 2

TickSteps == {23, 24, 25}

ImdbIds == {"tt1", "tt2"}
\* What the catalog may report as the title and year of a movie.
Listings == {[title |-> "T1", year |-> 1999], [title |-> "T2", year |-> 2000]}
Plots == {"plot"}
Runtimes == {120}
GenreNames == {"Action", "Drama"}

\* Raw search strings (sequences of characters) given to search_and_save:
\* "A  b", "a b", "a\tB", "a \tB", "b" and "B".
Searches ==
  { <<"A", " ", " ", "b">>, <<"a", " ", "b">>, <<"a", "\t", "B">>,
    <<"a", " ", "\t", "B">>, <<"b">>, <<"B">> }

SeqsUpTo(S, n) == UNION {[1..k -> S] : k \in 0..n}

Range(s) == {s[i] : i \in 1..Len(s)}

\* A table row stored under a unique key.
Put(table, key, row) ==
  [k \in DOMAIN table \cup {key} |-> IF k = key THEN row ELSE table[k]]

-----------------------------------------------------------------------------
(* The catalog client's responses *)

\* One item of omdb_client.search(search): imdb_id, title, year.
SearchHits ==
  {[imdb_id |-> id, title |-> l.title, year |-> l.year] :
     id \in ImdbIds, l \in Listings}

\* omdb_client.get_by_imdb_id(imdb_id): title, year, plot, runtime, genres.
MovieDetails ==
  {[title |-> l.title, year |-> l.year, plot |-> p, runtime_minutes |-> r,
    genres |-> g] :
     l \in Listings, p \in Plots, r \in Runtimes,
     g \in SeqsUpTo(GenreNames, MaxGenreNames)}

-----------------------------------------------------------------------------
(* search_and_save: normalisation, line 52 *)

IsSpace(c) == c \in {" ", "\t"}

\* str.lower() on one character.
Lower(c) == IF c = "A" THEN "a" ELSE IF c = "B" THEN "b" ELSE c

LowerStr(s) == [i \in 1..Len(s) |-> Lower(s[i])]

RECURSIVE SkipSpaces(_)
SkipSpaces(s) ==
  IF s # <<>> /\ IsSpace(Head(s)) THEN SkipSpaces(Tail(s)) ELSE s

\* re.sub(r"\s+", " ", s): every maximal run of whitespace becomes one space.
RECURSIVE CollapseSpaces(_)
CollapseSpaces(s) ==
  IF s = <<>> THEN <<>>
  ELSE IF IsSpace(Head(s)) THEN <<" ">> \o CollapseSpaces(SkipSpaces(s))
  ELSE <<Head(s)>> \o CollapseSpaces(Tail(s))

\* Faulty variant: the search is not lowercased.
NormalizeKeepCase(search) == CollapseSpaces(search)

Normalize(search) == CollapseSpaces(LowerStr(search))

-----------------------------------------------------------------------------
(* search_and_save: the recency window, line 56 *)

Day == 24

\* Faulty variants: a window of two days; a window closed at its lower end.
SearchedRecentlyTwoDays(last_search, t) == last_search > t - 2 * Day

SearchedRecentlyInclusive(last_search, t) == last_search >= t - Day

SearchedRecently(last_search, t) == last_search > t - Day

-----------------------------------------------------------------------------
(* The tables *)

\* A Movie row as Movie.objects.get_or_create(imdb_id, defaults) creates it:
\* the fields not given keep the model's defaults.
\* plot "" and runtime_minutes 0 stand for NULL.
NewMovie(defaults) ==
  [title |-> defaults.title, year |-> defaults.year, plot |-> "",
   runtime_minutes |-> 0, genres |-> {}, is_full_record |-> FALSE]

\* Faulty variants: update_or_create, which writes the defaults to the row it finds;
\* a creation that marks the new row as a full record.
MovieUpdateOrCreate(table, hit) ==
  IF hit.imdb_id \in DOMAIN table
  THEN [table |-> [table EXCEPT ![hit.imdb_id].title = hit.title,
                                ![hit.imdb_id].year = hit.year],
        created |-> FALSE]
  ELSE [table |-> Put(table, hit.imdb_id,
                      NewMovie([title |-> hit.title, year |-> hit.year])),
        created |-> TRUE]

MovieGetOrCreateAsFull(table, hit) ==
  IF hit.imdb_id \in DOMAIN table
  THEN [table |-> table, created |-> FALSE]
  ELSE [table |-> Put(table, hit.imdb_id,
                      [NewMovie([title |-> hit.title, year |-> hit.year])
                         EXCEPT !.is_full_record = TRUE]),
        created |-> TRUE]

\* Movie.objects.get_or_create(imdb_id=..., defaults={title, year})
MovieGetOrCreate(table, hit) ==
  IF hit.imdb_id \in DOMAIN table
  THEN [table |-> table, created |-> FALSE]
  ELSE [table |-> Put(table, hit.imdb_id,
                      NewMovie([title |-> hit.title, year |-> hit.year])),
        created |-> TRUE]

\* The loop over the search results; failAt = k > 0: persisting the k-th
\* result raises, failAt = 0: no failure.
RECURSIVE SaveResults(_, _, _, _)

\* Faulty variant: the loop leaves out the last result.
RECURSIVE SaveResultsButLast(_, _, _, _)
SaveResultsButLast(table, results, i, failAt) ==
  IF i >= Len(results) THEN [table |-> table, raised |-> "none"]
  ELSE IF i = failAt THEN [table |-> table, raised |-> "DatabaseError"]
  ELSE SaveResultsButLast(MovieGetOrCreate(table, results[i]).table,
                          results, i + 1, failAt)

SaveResults(table, results, i, failAt) ==
  IF i > Len(results) THEN [table |-> table, raised |-> "none"]
  ELSE IF i = failAt THEN [table |-> table, raised |-> "DatabaseError"]
  ELSE SaveResults(MovieGetOrCreate(table, results[i]).table,
                   results, i + 1, failAt)

\* SearchTerm.last_search is an auto-now field: every insert and every save
\* of a row writes the current time to it.
AutoNow(t) == t

\* Faulty variant: update_or_create, which saves the row it finds.
SearchTermUpdateOrCreate(table, term, t) ==
  [table |-> Put(table, term, AutoNow(t)), created |-> term \notin DOMAIN table]

\* SearchTerm.objects.get_or_create(term=...)
SearchTermGetOrCreate(table, term, t) ==
  IF term \in DOMAIN table
  THEN [table |-> table, created |-> FALSE]
  ELSE [table |-> Put(table, term, AutoNow(t)), created |-> TRUE]

\* search_term.save()
SearchTermSave(table, term, t) == Put(table, term, AutoNow(t))

\* The Genre table is the sequence of its rows' names; a row's position is
\* its primary key.
GenrePks(table, name) == {pk \in 1..Len(table) : table[pk] = name}

\* Faulty variant: create, whether or not a Genre of that name exists.
GenreCreate(table, name) ==
  [table |-> Append(table, name), pk |-> Len(table) + 1, created |-> TRUE]

\* Faulty variant: the lookup sees the newest row only.
GenreGetOrCreateNewest(table, name) ==
  IF table # <<>> /\ table[Len(table)] = name
  THEN [table |-> table, pk |-> Len(table), created |-> FALSE]
  ELSE [table |-> Append(table, name), pk |-> Len(table) + 1,
        created |-> TRUE]

\* Genre.objects.get_or_create(name=genre_name)
GenreGetOrCreate(table, name) ==
  IF GenrePks(table, name) # {}
  THEN [table |-> table, pk |-> CHOOSE pk \in GenrePks(table, name) : TRUE,
        created |-> FALSE]
  ELSE [table |-> Append(table, name), pk |-> Len(table) + 1,
        created |-> TRUE]

\* get_or_create_genres(genre_names) as consumed by the loop of
\* fill_movie_details, which adds each genre yielded to the movie: added is
\* the set of genres added so far.  failAt = k > 0: the k-th get_or_create
\* raises.
RECURSIVE GetOrCreateGenres(_, _, _, _, _)
GetOrCreateGenres(table, added, genre_names, i, failAt) ==
  IF i > Len(genre_names)
  THEN [table |-> table, added |-> added, raised |-> "none"]
  ELSE IF i = failAt
  THEN [table |-> table, added |-> added, raised |-> "DatabaseError"]
  ELSE LET g == GenreGetOrCreate(table, genre_names[i])
       IN GetOrCreateGenres(g.table, added \cup {g.pk},
                            genre_names, i + 1, failAt)

-----------------------------------------------------------------------------
(* What a call did, as its caller and the catalog see it *)

NoCall ==
  [op |-> "none", at |-> 0, search |-> <<>>, imdb_id |-> "none",
   created |-> FALSE, api |-> <<>>, results |-> <<>>, details |-> <<>>,
   raised |-> "none", warned |-> FALSE]

Init ==
  /\ now = 0
  /\ movies = <<>>
  /\ genres = <<>>
  /\ searchTerms = <<>>
  /\ last = NoCall
  /\ searchedAs = <<>>
  /\ inflight = <<>>

-----------------------------------------------------------------------------
(* fill_movie_details *)

\* Faulty variant: the guard is missing.
AlreadyFullNever(movie) == FALSE

\* The guard of line 27.
AlreadyFull(movie) == movie.is_full_record

\* Lines 35-38: the fields assigned from the response (in memory until save).
WithDetails(movie, d) ==
  [movie EXCEPT !.title = d.title, !.year = d.year, !.plot = d.plot,
                !.runtime_minutes = d.runtime_minutes]

\* Faulty variant: the genres are added without movie.genres.clear().
AddGenres(movie, added) == [movie EXCEPT !.genres = @ \cup added]

\* Lines 39-41: movie.genres.clear(), then movie.genres.add(genre) for each
\* genre yielded; both write the association table at once.
ReplaceGenres(movie, added) == [movie EXCEPT !.genres = added]

\* Lines 42-43: the flag is set and the row saved.
SaveFull(movie) == [movie EXCEPT !.is_full_record = TRUE]

GetCall(imdb_id) ==
  [call |-> "get_by_imdb_id", search |-> <<>>, imdb_id |-> imdb_id]

\* Faulty variant: the flag is set and saved before the catalog is called.
FillMovieDetailsFlagFirst(imdb_id, Details) ==
  /\ imdb_id \in DOMAIN movies
  /\ UNCHANGED <<now, searchTerms, searchedAs, inflight>>
  /\ LET movie == movies[imdb_id]
         call == [NoCall EXCEPT !.op = "fill_movie_details", !.at = now,
                                !.imdb_id = imdb_id]
     IN IF AlreadyFull(movie)
        THEN /\ UNCHANGED <<movies, genres>>
             /\ last' = [call EXCEPT !.warned = TRUE]
        ELSE \/ /\ movies' = [movies EXCEPT ![imdb_id] = SaveFull(movie)]
                /\ UNCHANGED genres
                /\ last' = [call EXCEPT !.api = <<GetCall(imdb_id)>>,
                                        !.raised = "ClientError"]
             \/ \E d \in Details : \E failAt \in 0..(Len(d.genres) + 1) :
                  LET g == GetOrCreateGenres(genres, {}, d.genres, 1, failAt)
                      saved == failAt = 0
                      row == IF saved
                             THEN SaveFull(ReplaceGenres(WithDetails(movie, d),
                                                         g.added))
                             ELSE SaveFull(ReplaceGenres(movie, g.added))
                  IN /\ movies' = [movies EXCEPT ![imdb_id] = row]
                     /\ genres' = g.table
                     /\ last' = [call EXCEPT !.api = <<GetCall(imdb_id)>>,
                                             !.details = <<d>>,
                                             !.raised = IF saved THEN "none"
                                                        ELSE "DatabaseError"]

\* fill_movie_details(movie) on the stored movie imdb_id; the catalog answers
\* with a ClientError or with one of Details.
FillMovieDetails(imdb_id, Details) ==
  /\ imdb_id \in DOMAIN movies
  /\ UNCHANGED <<now, searchTerms, searchedAs, inflight>>
  /\ LET movie == movies[imdb_id]
         call == [NoCall EXCEPT !.op = "fill_movie_details", !.at = now,
                                !.imdb_id = imdb_id]
     IN IF AlreadyFull(movie)
        THEN /\ UNCHANGED <<movies, genres>>
             /\ last' = [call EXCEPT !.warned = TRUE]
        ELSE \/ \* get_by_imdb_id raises ClientError
                /\ UNCHANGED <<movies, genres>>
                /\ last' = [call EXCEPT !.api = <<GetCall(imdb_id)>>,
                                        !.raised = "ClientError"]
             \/ \* failAt = Len(d.genres) + 1: movie.save() raises
                \E d \in Details : \E failAt \in 0..(Len(d.genres) + 1) :
                  LET g == GetOrCreateGenres(genres, {}, d.genres, 1, failAt)
                      saved == failAt = 0
                      row == IF saved
                             THEN SaveFull(ReplaceGenres(WithDetails(movie, d),
                                                         g.added))
                             ELSE ReplaceGenres(movie, g.added)
                  IN /\ movies' = [movies EXCEPT ![imdb_id] = row]
                     /\ genres' = g.table
                     /\ last' = [call EXCEPT !.api = <<GetCall(imdb_id)>>,
                                             !.details = <<d>>,
                                             !.raised = IF saved THEN "none"
                                                        ELSE "DatabaseError"]

-----------------------------------------------------------------------------
(* search_and_save *)

SearchCall(search) ==
  [call |-> "search", search |-> search, imdb_id |-> "none"]

\* Faulty variant: search_term.save() indented into the loop body.
AfterLoopInBody(table, term, t, results, raised) ==
  IF raised = "none" /\ Len(results) > 0
  THEN Put(table, term, AutoNow(t)) ELSE table

\* Lines 66-79: search_term.save() follows the loop, so it runs once the loop
\* has ended without raising, whatever the number of results.
AfterLoop(table, term, t, results, raised) ==
  IF raised = "none" THEN SearchTermSave(table, term, t) ELSE table

\* search_and_save(search); the catalog answers with a ClientError or with
\* one of Results.
SearchAndSave(search, Results) ==
  /\ UNCHANGED <<now, genres, inflight>>
  /\ LET term == Normalize(search)
         got == SearchTermGetOrCreate(searchTerms, term, now)
         call == [NoCall EXCEPT !.op = "search_and_save", !.at = now,
                                !.search = search, !.created = got.created]
     IN IF ~got.created /\ SearchedRecently(got.table[term], now)
        THEN /\ UNCHANGED <<movies, searchedAs>>
             /\ searchTerms' = got.table
             /\ last' = [call EXCEPT !.warned = TRUE]
        ELSE \/ \* omdb_client.search raises ClientError
                /\ UNCHANGED <<movies, searchedAs>>
                /\ searchTerms' = got.table
                /\ last' = [call EXCEPT !.api = <<SearchCall(search)>>,
                                        !.raised = "ClientError"]
             \/ \E results \in Results : \E failAt \in 0..Len(results) :
                  LET r == SaveResults(movies, results, 1, failAt)
                  IN /\ movies' = r.table
                     /\ searchTerms' =
                          AfterLoop(got.table, term, now, results, r.raised)
                     /\ last' = [call EXCEPT !.api = <<SearchCall(search)>>,
                                             !.results = results,
                                             !.raised = r.raised]
                     /\ searchedAs' = IF r.raised = "none"
                                      THEN Put(searchedAs, term, search)
                                      ELSE searchedAs

-----------------------------------------------------------------------------
(* The clock *)

Tick(Steps) ==
  /\ \E d \in Steps : now + d <= MaxTime /\ now' = now + d
  /\ UNCHANGED <<movies, genres, searchTerms, last, searchedAs, inflight>>

-----------------------------------------------------------------------------
(* Specifications *)

\* Spec: the Movie table under every answer of the catalog to a search.  One
\* search string, searched at hour 0 and again past its window; the detail
\* answer is fixed.
FewDetails ==
  {[title |-> "T2", year |-> 2000, plot |-> "plot", runtime_minutes |-> 120,
    genres |-> <<"Action">>]}

Next ==
  \/ \E search \in {<<"b">>} :
       SearchAndSave(search, SeqsUpTo(SearchHits, MaxResults))
  \/ \E imdb_id \in ImdbIds : FillMovieDetails(imdb_id, FewDetails)
  \/ Tick({MaxTime})

Spec == Init /\ [][Next]_vars

\* SpecFill: the Movie and Genre tables under every detail answer of the
\* catalog.  A search stores both movies as partial records first.
BothHits ==
  {<<[imdb_id |-> "tt1", title |-> "T1", year |-> 1999],
     [imdb_id |-> "tt2", title |-> "T1", year |-> 1999]>>}

NextFill ==
  \/ \E search \in {<<"b">>} : SearchAndSave(search, BothHits)
  \/ \E imdb_id \in ImdbIds :
       FillMovieDetails(imdb_id, MovieDetails)

SpecFill == Init /\ [][NextFill]_vars

\* SpecSearch: the recency window under every search string and every age
\* of a search term; the catalog answers a search with an error, with
\* nothing, or with one movie.
FewResults == SeqsUpTo({[imdb_id |-> "tt1", title |-> "T1", year |-> 1999]}, 1)

NextSearch ==
  \/ \E search \in Searches : SearchAndSave(search, FewResults)
  \/ Tick(TickSteps)

SpecSearch == Init /\ [][NextSearch]_vars

-----------------------------------------------------------------------------
(* search_and_save run by concurrent workers.  No lock or transaction      *)
(* spans the function, so another worker can run between two of its        *)
(* database or catalog calls: a call is the steps BeginSearch (lines       *)
(* 52-62), CallCatalog (lines 64-66), PersistResult (one turn of the loop,  *)
(* lines 66-77) for each result, and SaveTerm (line 79).                   *)

Workers == {1, 2}

Idle ==
  [pc |-> "idle", search |-> <<>>, at |-> 0, created |-> FALSE,
   api |-> <<>>, results |-> <<>>, next |-> 0, made |-> {}]

InitConcurrent ==
  /\ now = 0
  /\ movies = <<>>
  /\ genres = <<>>
  /\ searchTerms = <<>>
  /\ last = NoCall
  /\ searchedAs = <<>>
  /\ inflight = [p \in Workers |-> Idle]

\* What the call of a worker did, once it has returned or raised.
Returned(call, raised) ==
  [NoCall EXCEPT !.op = "search_and_save", !.at = call.at,
                 !.search = call.search, !.created = call.created,
                 !.api = call.api, !.results = call.results,
                 !.raised = raised]

\* Faulty variant: a search that finds one active for the same term returns
\* as if the term had been searched recently.
BeginSearchExclusive(p, search) ==
  /\ inflight[p].pc = "idle"
  /\ UNCHANGED <<now, movies, genres, searchedAs>>
  /\ LET term == Normalize(search)
         got == SearchTermGetOrCreate(searchTerms, term, now)
         call == [Idle EXCEPT !.pc = "search", !.search = search,
                              !.at = now, !.created = got.created]
     IN /\ searchTerms' = got.table
        /\ IF \/ ~got.created /\ SearchedRecently(got.table[term], now)
              \/ \E q \in Workers \ {p} :
                   /\ inflight[q].pc # "idle"
                   /\ Normalize(inflight[q].search) = term
           THEN /\ UNCHANGED inflight
                /\ last' = [Returned(call, "none") EXCEPT !.warned = TRUE]
           ELSE /\ inflight' = [inflight EXCEPT ![p] = call]
                /\ UNCHANGED last

\* Lines 52-62: the term is looked up or created and the recency check made
\* on the row read; a search made recently returns at once.
BeginSearch(p, search) ==
  /\ inflight[p].pc = "idle"
  /\ UNCHANGED <<now, movies, genres, searchedAs>>
  /\ LET term == Normalize(search)
         got == SearchTermGetOrCreate(searchTerms, term, now)
         call == [Idle EXCEPT !.pc = "search", !.search = search,
                              !.at = now, !.created = got.created]
     IN /\ searchTerms' = got.table
        /\ IF ~got.created /\ SearchedRecently(got.table[term], now)
           THEN /\ UNCHANGED inflight
                /\ last' = [Returned(call, "none") EXCEPT !.warned = TRUE]
           ELSE /\ inflight' = [inflight EXCEPT ![p] = call]
                /\ UNCHANGED last

\* Lines 64-66: omdb_client.search(search) answers with one of Results or
\* raises ClientError, which ends the call.
CallCatalog(p, Results) ==
  /\ inflight[p].pc = "search"
  /\ UNCHANGED <<now, movies, genres, searchTerms, searchedAs>>
  /\ LET called == [inflight[p] EXCEPT
                      !.api = <<SearchCall(inflight[p].search)>>]
     IN \/ /\ inflight' = [inflight EXCEPT ![p] = Idle]
           /\ last' = Returned(called, "ClientError")
        \/ \E results \in Results :
             /\ inflight' =
                  [inflight EXCEPT ![p] =
                     [called EXCEPT !.pc = IF results = <<>> THEN "save"
                                                            ELSE "persist",
                                    !.results = results, !.next = 1]]
             /\ UNCHANGED last

\* Faulty variant: the loop runs in a transaction, and a failing write takes
\* back the movies the call has created.
PersistResultInTransaction(p) ==
  /\ inflight[p].pc = "persist"
  /\ UNCHANGED <<now, genres, searchTerms, searchedAs>>
  /\ LET call == inflight[p]
         got == MovieGetOrCreate(movies, call.results[call.next])
     IN \/ /\ movies' = got.table
           /\ inflight' =
                [inflight EXCEPT ![p] =
                   [call EXCEPT !.pc = IF call.next = Len(call.results)
                                       THEN "save" ELSE "persist",
                                !.next = call.next + 1,
                                !.made = IF got.created
                                         THEN call.made \cup
                                                {call.results[call.next].imdb_id}
                                         ELSE call.made]]
           /\ UNCHANGED last
        \/ /\ movies' = [id \in DOMAIN movies \ call.made |-> movies[id]]
           /\ inflight' = [inflight EXCEPT ![p] = Idle]
           /\ last' = Returned(call, "DatabaseError")

\* Lines 66-77, one turn of the loop: the movie of the next result is looked
\* up or created, and a creation logged (made: the ids logged so far); a
\* failing write raises, which ends the call.
PersistResult(p) ==
  /\ inflight[p].pc = "persist"
  /\ UNCHANGED <<now, genres, searchTerms, searchedAs>>
  /\ LET call == inflight[p]
         got == MovieGetOrCreate(movies, call.results[call.next])
     IN \/ /\ movies' = got.table
           /\ inflight' =
                [inflight EXCEPT ![p] =
                   [call EXCEPT !.pc = IF call.next = Len(call.results)
                                       THEN "save" ELSE "persist",
                                !.next = call.next + 1,
                                !.made = IF got.created
                                         THEN call.made \cup
                                                {call.results[call.next].imdb_id}
                                         ELSE call.made]]
           /\ UNCHANGED last
        \/ /\ UNCHANGED movies
           /\ inflight' = [inflight EXCEPT ![p] = Idle]
           /\ last' = Returned(call, "DatabaseError")

\* Line 79: search_term.save(), and the call returns.
SaveTerm(p) ==
  /\ inflight[p].pc = "save"
  /\ UNCHANGED <<now, movies, genres>>
  /\ searchTerms' =
       SearchTermSave(searchTerms, Normalize(inflight[p].search), now)
  /\ searchedAs' =
       Put(searchedAs, Normalize(inflight[p].search), inflight[p].search)
  /\ inflight' = [inflight EXCEPT ![p] = Idle]
  /\ last' = Returned(inflight[p], "none")

\* SpecConcurrent: two workers, two search strings of one term; the term is
\* searched at hour 0 and again once its window has passed, and the catalog
\* answers with an error, with nothing, with one movie or with two.
ConcurrentSearches == {<<"A", " ", " ", "b">>, <<"a", " ", "b">>}

ConcurrentResults == FewResults \cup BothHits

NextConcurrent ==
  \/ \E p \in Workers : \E search \in ConcurrentSearches :
       BeginSearch(p, search)
  \/ \E p \in Workers : CallCatalog(p, ConcurrentResults)
  \/ \E p \in Workers : PersistResult(p)
  \/ \E p \in Workers : SaveTerm(p)
  \/ Tick({Day + 1})

SpecConcurrent == InitConcurrent /\ [][NextConcurrent]_vars

-----------------------------------------------------------------------------
(* Properties.  A step that leaves the clock alone and changes the state   *)
(* is a call, and last' describes it.                                      *)

IsSearch(call) == call.op = "search_and_save"

IsFill(call) == call.op = "fill_movie_details"

\* The call reached the catalog's search and returned normally.
Executed(call) ==
  IsSearch(call) /\ call.api = <<SearchCall(call.search)>> /\ call.raised = "none"

\* The call returned without touching the catalog.
Skipped(call) == IsSearch(call) /\ call.api = <<>> /\ call.raised = "none"

\* C1: a search for an existing term last searched less than 24 hours ago
\* makes no catalog call, creates no movie and leaves the timestamp alone;
\* one for a term last searched more than 24 hours ago calls the catalog's
\* search with the string given and, returning normally, leaves the
\* timestamp at the current time.
C1_RecencyWindow ==
  [][\A term \in DOMAIN searchTerms :
       (now' = now /\ IsSearch(last') /\ Normalize(last'.search) = term) =>
         /\ now - searchTerms[term] < Day =>
              /\ last'.api = <<>>
              /\ movies' = movies
              /\ searchTerms' = searchTerms
         /\ now - searchTerms[term] > Day =>
              /\ last'.api = <<SearchCall(last'.search)>>
              /\ last'.raised = "none" => searchTerms'[term] = now']_vars

\* A search was skipped for a term last searched 23 hours before.
C1_Witness ==
  /\ Skipped(last) /\ last.warned /\ last.at = now
  /\ Normalize(last.search) \in DOMAIN searchTerms
  /\ now - searchTerms[Normalize(last.search)] = 23

\* C3 as stated: the window is closed at its lower end, so that a search for
\* a term last searched at now - 24h or later is skipped.
C3_InclusiveBound ==
  [][\A term \in DOMAIN searchTerms :
       (now' = now /\ IsSearch(last') /\ Normalize(last'.search) = term
          /\ now - Day <= searchTerms[term]) =>
         last'.api = <<>> /\ searchTerms' = searchTerms]_vars

\* C3 amended: the window is open at its lower end.  A search for a term last
\* searched after now - 24h is skipped; one for a term last searched exactly
\* at now - 24h is not: it calls the catalog.
C3_ExclusiveBound ==
  [][\A term \in DOMAIN searchTerms :
       (now' = now /\ IsSearch(last') /\ Normalize(last'.search) = term) =>
         /\ now - Day < searchTerms[term] =>
              last'.api = <<>> /\ searchTerms' = searchTerms
         /\ now - Day = searchTerms[term] =>
              last'.api = <<SearchCall(last'.search)>>]_vars

\* A search for a term last searched exactly 24 hours before reached the
\* catalog (which failed, so that the timestamp still shows the age).
C3_Witness ==
  /\ IsSearch(last) /\ last.at = now /\ ~last.created
  /\ last.api = <<SearchCall(last.search)>> /\ last.raised = "ClientError"
  /\ searchTerms[Normalize(last.search)] = now - Day

\* C8: a timestamp never decreases, and a SearchTerm is created or its
\* timestamp changed only by a search_and_save for that term that called the
\* catalog's search.
C8_TimestampMonotone ==
  [][/\ DOMAIN searchTerms \subseteq DOMAIN searchTerms'
     /\ \A term \in DOMAIN searchTerms' :
          /\ term \in DOMAIN searchTerms =>
               searchTerms'[term] >= searchTerms[term]
          /\ (term \notin DOMAIN searchTerms
                \/ searchTerms'[term] # searchTerms[term]) =>
               /\ now' = now /\ IsSearch(last') /\ last'.at = now
               /\ Normalize(last'.search) = term
               /\ last'.api = <<SearchCall(last'.search)>>]_vars

\* The timestamp of a term that existed was advanced by an executed search.
C8_Witness ==
  /\ Executed(last) /\ ~last.created /\ last.at = now /\ now > Day
  /\ searchTerms[Normalize(last.search)] = now

\* Two strings that differ only in the length (or the characters) of their
\* whitespace runs or in letter case.
RECURSIVE SameButSpacingAndCase(_, _)
SameButSpacingAndCase(s, t) ==
  IF s = <<>> \/ t = <<>> THEN s = t
  ELSE IF IsSpace(Head(s)) /\ IsSpace(Head(t))
  THEN SameButSpacingAndCase(SkipSpaces(s), SkipSpaces(t))
  ELSE /\ ~IsSpace(Head(s)) /\ ~IsSpace(Head(t))
       /\ Head(s) \in {Head(t), Lower(Head(t))} \/ Head(t) = Lower(Head(s))
       /\ SameButSpacingAndCase(Tail(s), Tail(t))

\* C9: two search strings that differ only in whitespace run length or
\* letter case have the same normalized term and share one SearchTerm; once
\* a search for one has been executed, a search for the other within 24
\* hours is skipped and adds no SearchTerm.
C9_SharedRateLimit ==
  /\ \A s, t \in Searches :
       SameButSpacingAndCase(s, t) => Normalize(s) = Normalize(t)
  /\ [][\A term \in DOMAIN searchedAs :
          (now' = now /\ IsSearch(last')
             /\ SameButSpacingAndCase(searchedAs[term], last'.search)
             /\ now - searchTerms[term] < Day) =>
            /\ last'.api = <<>>
            /\ DOMAIN searchTerms' = DOMAIN searchTerms]_vars

\* A search was skipped within 24 hours of an executed search for a
\* different string with the same letters.
C9_Witness ==
  /\ Skipped(last) /\ last.warned /\ last.at = now
  /\ \E term \in DOMAIN searchedAs :
       /\ searchedAs[term] # last.search
       /\ SameButSpacingAndCase(searchedAs[term], last.search)
       /\ now - searchTerms[term] < Day
       /\ now > searchTerms[term]

\* The latest call reached the catalog, got no result and returned normally.
ZeroResults(call) == Executed(call) /\ call.results = <<>>

\* C10: an executed search that gets zero results leaves the timestamp at the
\* current time all the same, and the next call, if it is a search for the
\* same normalized term less than 24 hours later, is skipped.
C10_ZeroResults ==
  [][/\ (now' = now /\ ZeroResults(last')) =>
          searchTerms'[Normalize(last'.search)] = now'
     /\ (now' = now /\ ZeroResults(last) /\ IsSearch(last')
           /\ Normalize(last'.search) = Normalize(last.search)
           /\ now - last.at < Day) =>
          last'.api = <<>> /\ searchTerms' = searchTerms]_vars

\* A search for a term that existed got zero results, and the timestamp is
\* the current time.
C10_Witness ==
  /\ ZeroResults(last) /\ ~last.created /\ last.at = now
  /\ searchTerms[Normalize(last.search)] = now

\* C2: fill_movie_details on a movie that is a full record calls nothing and
\* changes nothing: no field of any movie, no genre association, no Genre.
C2_FullRecordNoOp ==
  [][\A id \in DOMAIN movies :
       (now' = now /\ IsFill(last') /\ last'.imdb_id = id
          /\ movies[id].is_full_record) =>
         /\ last'.api = <<>>
         /\ movies' = movies
         /\ genres' = genres
         /\ searchTerms' = searchTerms]_vars

\* fill_movie_details was called on a full record.
C2_Witness ==
  /\ IsFill(last) /\ last.warned /\ last.raised = "none"
  /\ movies[last.imdb_id].is_full_record
  /\ movies[last.imdb_id].genres # {}

HitIds(results) == {results[i].imdb_id : i \in 1..Len(results)}

\* The first result that carries the id: the one met while no movie of that
\* id was stored.
FirstHit(results, id) ==
  results[CHOOSE i \in 1..Len(results) :
            /\ results[i].imdb_id = id
            /\ \A j \in 1..(i - 1) : results[j].imdb_id # id]

\* C4: after an executed search the stored movies are those stored before
\* and one per id of the results, no other; a movie created has the title
\* and year of the result that created it and is a partial record.
C4_ResultsSaved ==
  [][(now' = now /\ Executed(last')) =>
       /\ DOMAIN movies' = DOMAIN movies \cup HitIds(last'.results)
       /\ Cardinality(DOMAIN movies') =
            Cardinality(DOMAIN movies)
              + Cardinality(HitIds(last'.results) \ DOMAIN movies)
       /\ \A id \in HitIds(last'.results) \ DOMAIN movies :
            /\ movies'[id].title = FirstHit(last'.results, id).title
            /\ movies'[id].year = FirstHit(last'.results, id).year
            /\ ~movies'[id].is_full_record]_vars

\* The first search ever returned two results, the same id twice under two
\* titles, and one movie was created.
C4_Witness ==
  /\ Executed(last) /\ last.created /\ Len(last.results) = 2
  /\ last.results[1].imdb_id = last.results[2].imdb_id
  /\ last.results[1].title # last.results[2].title
  /\ DOMAIN movies = {last.results[1].imdb_id}
  /\ movies[last.results[1].imdb_id].title = last.results[1].title

\* C5: a search that reaches the catalog leaves every stored movie named in
\* its results as it was, whatever title and year the result carries.
C5_ExistingUntouched ==
  [][(now' = now /\ IsSearch(last') /\ last'.api # <<>>) =>
       \A id \in HitIds(last'.results) \cap DOMAIN movies :
         movies'[id] = movies[id]]_vars

\* An executed search returned a full record under another title.
C5_Witness ==
  /\ Executed(last) /\ last.at = now
  /\ \E i \in 1..Len(last.results) :
       LET id == last.results[i].imdb_id
       IN /\ id \in DOMAIN movies
          /\ movies[id].is_full_record
          /\ movies[id].title # last.results[i].title
          /\ movies[id].year # last.results[i].year

\* The names of the Genre rows a movie is associated with.
GenreNamesOf(table, movie) == {table[pk] : pk \in movie.genres}

\* C6: after a successful fill_movie_details of a partial record the movie is
\* associated with exactly the genres the response names, one Genre per
\* name; the Genre table keeps its rows and gains exactly one row per name
\* of the response that had none.
C6_GenresReplaced ==
  [][(now' = now /\ IsFill(last') /\ last'.api # <<>>
        /\ last'.raised = "none") =>
       LET G == Range(last'.details[1].genres)
           id == last'.imdb_id
           new == SubSeq(genres', Len(genres) + 1, Len(genres'))
       IN /\ GenreNamesOf(genres', movies'[id]) = G
          /\ Cardinality(movies'[id].genres) = Cardinality(G)
          /\ SubSeq(genres', 1, Len(genres)) = genres
          /\ Range(new) = G \ Range(genres)
          /\ Len(new) = Cardinality(G \ Range(genres))]_vars

\* A fill with the genres Action and Drama succeeded on a movie while the
\* other movie was already associated with Action and not with Drama.
C6_Witness ==
  /\ IsFill(last) /\ last.raised = "none" /\ last.details # <<>>
  /\ last.details[1].genres = <<"Action", "Drama">>
  /\ genres = <<"Action", "Drama">>
  /\ GenreNamesOf(genres, movies[last.imdb_id]) = {"Action", "Drama"}
  /\ \E other \in DOMAIN movies \ {last.imdb_id} :
       GenreNamesOf(genres, movies[other]) = {"Action"}

\* C7: a movie is created as a partial record; the flag turns true only in a
\* successful fill_movie_details of that movie; a full record stays one, and
\* no movie is deleted.
C7_FullRecordFlag ==
  [][/\ DOMAIN movies \subseteq DOMAIN movies'
     /\ \A id \in DOMAIN movies' :
          /\ id \notin DOMAIN movies => ~movies'[id].is_full_record
          /\ id \in DOMAIN movies =>
               /\ movies[id].is_full_record => movies'[id].is_full_record
               /\ (~movies[id].is_full_record /\ movies'[id].is_full_record) =>
                    /\ now' = now /\ IsFill(last') /\ last'.imdb_id = id
                    /\ last'.api = <<GetCall(id)>>
                    /\ last'.raised = "none"]_vars

\* A movie is a full record right after a search that named it and another
\* that it created.
C7_Witness ==
  /\ Executed(last) /\ last.at = now /\ Len(last.results) = 2
  /\ DOMAIN movies = HitIds(last.results)
  /\ \E id, other \in DOMAIN movies :
       movies[id].is_full_record /\ ~movies[other].is_full_record

\* C11: the recency check and the catalog call are not one atomic step.  A
\* worker's check looks at the stored row alone: a search is skipped only
\* when the row read was written less than 24 hours before, whatever the
\* other workers are in the middle of, and a worker that has passed the
\* check calls the catalog.  So two workers can both pass the check for one
\* term and both call the catalog (C11_Witness).
C11_CheckThenAct ==
  [][/\ (now' = now /\ last' # last /\ Skipped(last')) =>
          /\ Normalize(last'.search) \in DOMAIN searchTerms
          /\ searchTerms[Normalize(last'.search)] > now - Day
     /\ \A p \in Workers :
          (inflight[p].pc = "search" /\ inflight'[p].pc # "search") =>
            \/ inflight'[p].api = <<SearchCall(inflight[p].search)>>
            \/ last'.api = <<SearchCall(inflight[p].search)>>]_vars

\* Two workers have both passed the recency check at the same hour for the
\* same existing term, under different strings, and both have called the
\* catalog.
C11_Witness ==
  \E p, q \in Workers :
    /\ p # q
    /\ inflight[p].pc \in {"persist", "save"}
    /\ inflight[q].pc \in {"persist", "save"}
    /\ inflight[p].search # inflight[q].search
    /\ Normalize(inflight[p].search) = Normalize(inflight[q].search)
    /\ inflight[p].api = <<SearchCall(inflight[p].search)>>
    /\ inflight[q].api = <<SearchCall(inflight[q].search)>>
    /\ inflight[p].at = inflight[q].at
    /\ ~inflight[p].created /\ ~inflight[q].created

\* The ids of the results before the k-th.
HitIdsBefore(results, k) == {results[i].imdb_id : i \in 1..(k - 1)}

\* C12: when persisting the k-th result of a search fails, the call ends
\* there and raises the error: the failing step changes no table, the movies
\* the call has created, all of them for results before the k-th, are
\* stored, as is a movie for every result before the k-th; and a turn of the
\* loop that does not fail creates a movie for its own result at most, so
\* that nothing is created for a result the loop never reaches.
C12_FailedPersist ==
  [][\A p \in Workers :
       LET call == inflight[p]
           k == call.next
       IN /\ (call.pc = "persist" /\ inflight'[p].pc = "idle") =>
               /\ last' = Returned(call, "DatabaseError")
               /\ movies' = movies
               /\ searchTerms' = searchTerms
               /\ call.made \subseteq HitIdsBefore(call.results, k)
               /\ HitIdsBefore(call.results, k) \subseteq DOMAIN movies'
               /\ \A id \in call.made :
                    /\ movies'[id].title = FirstHit(call.results, id).title
                    /\ movies'[id].year = FirstHit(call.results, id).year
          /\ (call.pc = "persist" /\ inflight'[p] # call
                /\ inflight'[p].pc # "idle") =>
               /\ inflight'[p].next = k + 1
               /\ DOMAIN movies' \ DOMAIN movies = inflight'[p].made \ call.made
               /\ inflight'[p].made \ call.made \subseteq
                    {call.results[k].imdb_id}
               /\ \A id \in DOMAIN movies : movies'[id] = movies[id]]_vars

\* The first search ever got two results of two ids and failed on the
\* second, nothing else being under way: the movie of the first is stored,
\* that of the second is not.
C12_Witness ==
  /\ IsSearch(last) /\ last.raised = "DatabaseError" /\ last.created
  /\ Len(last.results) = 2
  /\ \A p \in Workers : inflight[p].pc = "idle"
  /\ DOMAIN movies = {last.results[1].imdb_id}
  /\ last.results[2].imdb_id # last.results[1].imdb_id

\* No two rows of the Genre table carry the same name.
UniqueNames(table) ==
  \A i, j \in 1..Len(table) : table[i] = table[j] => i = j

\* C13: no two Genres have the same name; a step keeps every Genre there
\* is, and Genres are created by a fill_movie_details that reached the
\* catalog and got a response, for names of that response only.
C13_GenresUniqueAndKept ==
  [][/\ UniqueNames(genres) /\ UniqueNames(genres')
     /\ Len(genres') >= Len(genres)
     /\ SubSeq(genres', 1, Len(genres)) = genres
     /\ Len(genres') > Len(genres) =>
          /\ now' = now /\ IsFill(last')
          /\ last'.api = <<GetCall(last'.imdb_id)>>
          /\ last'.details # <<>>
          /\ \A pk \in (Len(genres) + 1)..Len(genres') :
               genres'[pk] \in Range(last'.details[1].genres)]_vars

\* A fill whose response names Drama and Action ran when Action was stored:
\* the table is Action and Drama, one row each.
C13_Witness ==
  /\ IsFill(last) /\ last.details # <<>> /\ last.at = now
  /\ last.details[1].genres = <<"Drama", "Action">>
  /\ genres = <<"Action", "Drama">>

\* The call was a fill_movie_details in which the catalog's lookup failed.
FillClientError(call) == IsFill(call) /\ call.raised = "ClientError"

\* C14: a fill_movie_details in which the catalog's lookup fails raises the
\* error having called the catalog once and written nothing: no movie, the
\* movie's genre associations and flag included, and no Genre changes.  A
\* fill of a movie that is not a full record calls the catalog, so the next
\* fill of the same movie does.
C14_ClientErrorInFill ==
  [][/\ (now' = now /\ FillClientError(last')) =>
          /\ last'.api = <<GetCall(last'.imdb_id)>>
          /\ last'.details = <<>>
          /\ movies' = movies
          /\ genres' = genres
          /\ ~movies'[last'.imdb_id].is_full_record
     /\ (now' = now /\ IsFill(last')
           /\ ~movies[last'.imdb_id].is_full_record) =>
          last'.api = <<GetCall(last'.imdb_id)>>
     /\ (now' = now /\ FillClientError(last) /\ IsFill(last')
           /\ last'.imdb_id = last.imdb_id) =>
          last'.api = <<GetCall(last.imdb_id)>>]_vars

\* The catalog's lookup failed in the fill of a partial record that carried
\* a genre association; the movie has it still, and no plot.
C14_Witness ==
  /\ FillClientError(last) /\ last.at = now
  /\ ~movies[last.imdb_id].is_full_record
  /\ movies[last.imdb_id].genres # {}
  /\ movies[last.imdb_id].plot = ""
  /\ genres # <<>>

\* The call was a search in which the catalog's search failed.
SearchClientError(call) == IsSearch(call) /\ call.raised = "ClientError"

\* C15 as stated: when the catalog's search fails with a ClientError, the
\* next call, if it is a search for the same normalized term less than 24
\* hours later, calls the catalog again, whether the term existed before
\* the failed call or was created by it.
C15_RetryAfterClientError ==
  [][(now' = now /\ SearchClientError(last) /\ IsSearch(last')
        /\ Normalize(last'.search) = Normalize(last.search)
        /\ now - last.at < Day) =>
       /\ last'.api = <<SearchCall(last'.search)>>
       /\ ~last'.warned]_vars

\* A search was skipped for a term whose row is less than 24 hours old
\* though no search for it has ever returned.
C15_Witness ==
  /\ Skipped(last) /\ last.warned /\ last.at = now
  /\ Normalize(last.search) \in DOMAIN searchTerms
  /\ Normalize(last.search) \notin DOMAIN searchedAs
  /\ now - searchTerms[Normalize(last.search)] < Day

====
